---- MODULE Spec2Model ----
(***************************************************************************)
(* Model of rockefeller/exchange_rates.py: the in-memory rate store        *)
(* (MemoryExchangeRates), the resolver wrapped around it (ExchangeRates)   *)
(* and the ExchangeRate value object.                                      *)
(*                                                                         *)
(* Python values are modelled as follows.                                  *)
(*   - a str is the sequence of its characters, <<"0", ".", "5">>;         *)
(*   - None is the value PyNone;                                           *)
(*   - a decimal.Decimal is the triple Python keeps: sign, the sequence of *)
(*     coefficient digits and the exponent;                                *)
(*   - a rate argument is a tagged value: an int, a str, a float (held as  *)
(*     its repr, the shortest literal that reads back as that float) or a  *)
(*     Decimal.                                                            *)
(***************************************************************************)
EXTENDS Integers, Sequences, FiniteSets, TLC

VARIABLES hashfn, rates, last

vars == <<hashfn, rates, last>>

\* ------------------------------------------------------- Python values

PyNone == [t |-> "None"]

StrVal(s) == [t |-> "str", s |-> s]

IntVal(n) == [t |-> "int", n |-> n]

\* A float, held as the characters of its repr.
FloatVal(r) == [t |-> "float", repr |-> r]

Currency(code) == [t |-> "Currency", code |-> code]

Date(day) == [t |-> "date", day |-> day]

\* An exception leaving a call.
Exc(name) == [t |-> "raise", exc |-> name]

\* bool(x), as `if x:` takes it: None and the empty str are false; a Currency and
\* a non-empty str (the str "0" included) are true.
Truthy(x) ==
  CASE x.t = "None" -> FALSE
    [] x.t = "str"  -> x.s # <<>>
    [] OTHER        -> TRUE

\* ------------------------------------------------------------------ str

Digits == {"0", "1", "2", "3", "4", "5", "6", "7", "8", "9"}

DigitChar(n) ==
  CASE n = 0 -> "0" [] n = 1 -> "1" [] n = 2 -> "2" [] n = 3 -> "3" [] n = 4 -> "4"
    [] n = 5 -> "5" [] n = 6 -> "6" [] n = 7 -> "7" [] n = 8 -> "8" [] n = 9 -> "9"

DigitVal(c) ==
  CASE c = "0" -> 0 [] c = "1" -> 1 [] c = "2" -> 2 [] c = "3" -> 3 [] c = "4" -> 4
    [] c = "5" -> 5 [] c = "6" -> 6 [] c = "7" -> 7 [] c = "8" -> 8 [] c = "9" -> 9

Zeros(n) == [i \in 1..n |-> 0]

\* The characters of a digit sequence.
DigitsToStr(ds) == [i \in 1..Len(ds) |-> DigitChar(ds[i])]

\* The decimal digits of a natural number, most significant first.
RECURSIVE NatDigits(_)
NatDigits(n) == IF n < 10 THEN <<n>> ELSE Append(NatDigits(n \div 10), n % 10)

\* str(n) of an int.
IntToStr(n) ==
  IF n < 0 THEN <<"-">> \o DigitsToStr(NatDigits(-n)) ELSE DigitsToStr(NatDigits(n))

\* ------------------------------------------------------------- Decimal

\* The context's precision: decimal.getcontext().prec of the default context.
DecimalPrec == 28

Dec(sign, int, exp) == [t |-> "Decimal", sign |-> sign, int |-> int, exp |-> exp]

\* A coefficient without its leading zeros (Python keeps "0" for zero).
RECURSIVE StripLeft(_)
StripLeft(ds) ==
  IF Len(ds) > 1 /\ ds[1] = 0 THEN StripLeft(Tail(ds)) ELSE ds

IsZero(d) == \A i \in 1..Len(d.int) : d.int[i] = 0

\* decimal.Decimal(s) for a str s: an optional sign, then digits with at most one
\* point and at least one digit. Anything else raises InvalidOperation.
\* (Exponents, NaN and Infinity literals are not among the strings of this model.)
DecimalFromStr(s) ==
  LET signed == Len(s) > 0 /\ s[1] \in {"-", "+"}
      body   == IF signed THEN Tail(s) ELSE s
      points == {i \in 1..Len(body) : body[i] = "."}
      ok     == /\ \A i \in 1..Len(body) : body[i] \in Digits \cup {"."}
                /\ Cardinality(points) <= 1
                /\ Len(body) - Cardinality(points) >= 1
      p      == IF points = {} THEN Len(body) + 1 ELSE CHOOSE i \in points : TRUE
      intp   == SubSeq(body, 1, p - 1)
      fracp  == SubSeq(body, p + 1, Len(body))
      ds     == intp \o fracp
  IN  IF ~ok THEN Exc("InvalidOperation")
      ELSE Dec(IF signed /\ s[1] = "-" THEN 1 ELSE 0,
               StripLeft([i \in 1..Len(ds) |-> DigitVal(ds[i])]),
               -Len(fracp))

\* str(d) of a Decimal whose exponent is not positive and whose adjusted exponent
\* is above -7: plain notation (Decimal.__str__ without the scientific branch).
DecimalToStr(d) ==
  LET n        == Len(d.int)
      dotplace == d.exp + n
      sgn      == IF d.sign = 1 THEN <<"-">> ELSE <<>>
      cs       == DigitsToStr(d.int)
  IN  sgn \o
      (IF d.exp = 0 THEN cs
       ELSE IF dotplace <= 0
            THEN <<"0", ".">> \o DigitsToStr(Zeros(-dotplace)) \o cs
            ELSE SubSeq(cs, 1, dotplace) \o <<".">> \o SubSeq(cs, dotplace + 1, n))

\* Long division of the digit sequence ds by the positive integer m, one digit at a
\* time: <<quotient digits, remainder>> (divmod on the coefficient).
RECURSIVE DivDigits(_, _, _, _)
DivDigits(ds, m, rem, acc) ==
  IF ds = <<>> THEN <<acc, rem>>
  ELSE LET cur == rem * 10 + Head(ds)
       IN  DivDigits(Tail(ds), m, cur % m, Append(acc, cur \div m))

\* The natural number a digit sequence denotes (used for divisors only, which are
\* short).
RECURSIVE DigitsToNat(_)
DigitsToNat(ds) ==
  IF ds = <<>> THEN 0
  ELSE DigitsToNat(SubSeq(ds, 1, Len(ds) - 1)) * 10 + ds[Len(ds)]

\* ds + 1 on a digit sequence.
RECURSIVE Increment(_)
Increment(ds) ==
  IF ds = <<>> THEN <<1>>
  ELSE IF ds[Len(ds)] < 9
       THEN [ds EXCEPT ![Len(ds)] = @ + 1]
       ELSE Append(Increment(SubSeq(ds, 1, Len(ds) - 1)), 0)

\* Exact quotients drop trailing zeros while the exponent is below the ideal one.
RECURSIVE TowardIdeal(_, _, _)
TowardIdeal(ds, exp, ideal) ==
  IF exp < ideal /\ Len(ds) > 1 /\ ds[Len(ds)] = 0
  THEN TowardIdeal(SubSeq(ds, 1, Len(ds) - 1), exp + 1, ideal)
  ELSE <<ds, exp>>

\* Decimal._fix: round a coefficient longer than the precision to the precision,
\* ROUND_HALF_EVEN.
Fix(sign, ds, exp) ==
  IF Len(ds) <= DecimalPrec THEN Dec(sign, ds, exp)
  ELSE LET keep    == SubSeq(ds, 1, DecimalPrec)
           dropped == SubSeq(ds, DecimalPrec + 1, Len(ds))
           half    == dropped[1] = 5 /\ \A i \in 2..Len(dropped) : dropped[i] = 0
           up      == \/ dropped[1] > 5
                      \/ dropped[1] = 5 /\ ~half
                      \/ half /\ keep[DecimalPrec] % 2 = 1
           kept    == IF up THEN Increment(keep) ELSE keep
           nexp    == exp + Len(dropped)
       IN  IF Len(kept) > DecimalPrec
           THEN Dec(sign, SubSeq(kept, 1, DecimalPrec), nexp + 1)
           ELSE Dec(sign, kept, nexp)

\* Decimal.__truediv__: a / b in the default context; DivisionByZero is raised
\* when b is zero and a is not.
DecimalDivide(a, b) ==
  IF IsZero(b) THEN (IF IsZero(a) THEN Exc("InvalidOperation") ELSE Exc("DivisionByZero"))
  ELSE LET sign  == (a.sign + b.sign) % 2
           shift == Len(b.int) - Len(a.int) + DecimalPrec + 1
           exp   == a.exp - b.exp - shift
           qr    == DivDigits(a.int \o Zeros(shift), DigitsToNat(b.int), 0, <<>>)
           q     == StripLeft(qr[1])
           inex  == qr[2] # 0
           coeff == IF inex /\ q[Len(q)] % 5 = 0 THEN Increment(q) ELSE q
           ex    == IF inex THEN <<coeff, exp>>
                    ELSE TowardIdeal(coeff, exp, a.exp - b.exp)
       IN  Fix(sign, ex[1], ex[2])

DecimalOne == Dec(0, <<1>>, 0)

\* ds * m + carry on a digit sequence, for a small natural m.
RECURSIVE MulCarry(_, _, _)
MulCarry(ds, m, carry) ==
  IF ds = <<>> THEN (IF carry = 0 THEN <<>> ELSE NatDigits(carry))
  ELSE LET v == ds[Len(ds)] * m + carry
       IN  Append(MulCarry(SubSeq(ds, 1, Len(ds) - 1), m, v \div 10), v % 10)

\* a + b on digit sequences.
RECURSIVE AddCarry(_, _, _)
AddCarry(a, b, carry) ==
  IF a = <<>> /\ b = <<>> THEN (IF carry = 0 THEN <<>> ELSE <<carry>>)
  ELSE LET x == IF a = <<>> THEN 0 ELSE a[Len(a)]
           y == IF b = <<>> THEN 0 ELSE b[Len(b)]
           v == x + y + carry
       IN  Append(AddCarry(IF a = <<>> THEN a ELSE SubSeq(a, 1, Len(a) - 1),
                           IF b = <<>> THEN b ELSE SubSeq(b, 1, Len(b) - 1),
                           v \div 10), v % 10)

\* a * b on digit sequences, one digit of b at a time.
RECURSIVE MulDigits(_, _, _)
MulDigits(a, b, acc) ==
  IF b = <<>> THEN acc
  ELSE MulDigits(a, Tail(b), AddCarry(Append(acc, 0), MulCarry(a, Head(b), 0), 0))

\* Decimal.__mul__: a * b in the default context.
DecimalMultiply(a, b) ==
  Fix((a.sign + b.sign) % 2, StripLeft(MulDigits(a.int, b.int, <<0>>)), a.exp + b.exp)

\* ------------------------------------------------- ExchangeRate (value)

\* str(x) of a rate argument.
PyStr(x) ==
  CASE x.t = "str"     -> x.s
    [] x.t = "int"     -> IntToStr(x.n)
    [] x.t = "float"   -> x.repr
    [] x.t = "Decimal" -> DecimalToStr(x)

\* ExchangeRate.__new__: the rate is kept when it is a Decimal and is otherwise
\* Decimal(str(rate)); the conversion's InvalidOperation leaves the constructor.
ExchangeRate_new(code_from, code_to, rate, date) ==
  LET r == IF rate.t = "Decimal" THEN rate ELSE DecimalFromStr(PyStr(rate))
  IN  IF r.t = "raise" THEN r
      ELSE [t |-> "ExchangeRate", code_from |-> code_from, code_to |-> code_to,
            rate |-> r, date |-> date]

\* ------------------------------------------------- MemoryExchangeRates

\* hash(x): Python's hash is one fixed function for the life of the process. It
\* gives equal values equal hashes and nothing more: it maps an unbounded set of
\* objects into a machine word, so distinct objects can share a hash. hashfn is
\* that function on the objects of the model, fixed by Init.
hash(x) == hashfn[x]

\* MemoryExchangeRates._get_key: the dict key is the triple of hashes.
_get_key(base_currency, currency, date) ==
  <<hash(base_currency), hash(currency), hash(date)>>

\* dict.get(key): the value, or None.
DictGet(d, key) == IF key \in DOMAIN d THEN d[key] ELSE PyNone

\* d[key] = value.
DictSet(d, key, value) ==
  [k \in DOMAIN d \cup {key} |-> IF k = key THEN value ELSE d[k]]

\* d.pop(key, None): the dict without the key; an absent key is no error.
DictPop(d, key) == [k \in DOMAIN d \ {key} |-> d[k]]

\* MemoryExchangeRates.add_exchange_rate: self.rates after the call.
MemoryExchangeRates_add_exchange_rate(d, base_currency, currency, exchange_rate, date) ==
  DictSet(d, _get_key(base_currency, currency, date), exchange_rate)

\* A removal that pops the key it is given and not the swapped one.
Mutant_remove_single(d, base_currency, currency, date) ==
  DictPop(d, _get_key(base_currency, currency, date))

\* MemoryExchangeRates.remove_exchange_rate: self.rates after the two pops.
MemoryExchangeRates_remove_exchange_rate(d, base_currency, currency, date) ==
  DictPop(DictPop(d, _get_key(base_currency, currency, date)),
          _get_key(currency, base_currency, date))

\* MemoryExchangeRates.get_exchange_rate.
MemoryExchangeRates_get_exchange_rate(d, base_currency, currency, date) ==
  DictGet(d, _get_key(base_currency, currency, date))

\* ------------------------------------------------------- ExchangeRates

\* What a call of the resolver's get_exchange_rate did: the value returned or the
\* exception raised, and the store lookups made, in order.
Outcome(val, queries) == [val |-> val, queries |-> queries]

\* An add that hands the store the two currencies in the wrong order.
Mutant_add_swapped(d, base_currency, currency, exchange_rate, date) ==
  MemoryExchangeRates_add_exchange_rate(d, currency, base_currency,
                                        StrVal(PyStr(exchange_rate)), date)

\* ExchangeRates.add_exchange_rate: the store receives str(exchange_rate).
ExchangeRates_add_exchange_rate(d, base_currency, currency, exchange_rate, date) ==
  MemoryExchangeRates_add_exchange_rate(d, base_currency, currency,
                                        StrVal(PyStr(exchange_rate)), date)

\* ExchangeRates.remove_exchange_rate.
ExchangeRates_remove_exchange_rate(d, base_currency, currency, date) ==
  MemoryExchangeRates_remove_exchange_rate(d, base_currency, currency, date)

\* A get_exchange_rate that returns the inverse entry as it is stored, without
\* taking its reciprocal.
Mutant_get_uninverted(d, base_currency, currency, indirection_currency, date) ==
  LET q1      == <<base_currency, currency, date>>
      q2      == <<currency, base_currency, date>>
      rate    == MemoryExchangeRates_get_exchange_rate(d, base_currency, currency, date)
      inverse == MemoryExchangeRates_get_exchange_rate(d, currency, base_currency, date)
  IN  IF Truthy(rate)
      THEN Outcome(DecimalFromStr(PyStr(rate)), <<q1>>)
      ELSE IF Truthy(inverse)
           THEN Outcome(DecimalFromStr(inverse.s), <<q1, q2>>)
           ELSE IF Truthy(indirection_currency)
                THEN Outcome(Exc("AttributeError"), <<q1, q2>>)
                ELSE Outcome(rate, <<q1, q2>>)

\* ExchangeRates.get_exchange_rate. The indirection branch evaluates
\* self.currency, an attribute the class never sets, so it raises AttributeError
\* before either leg is looked up; the product below it is never computed.
ExchangeRates_get_exchange_rate(d, base_currency, currency, indirection_currency, date) ==
  LET q1      == <<base_currency, currency, date>>
      q2      == <<currency, base_currency, date>>
      rate    == MemoryExchangeRates_get_exchange_rate(d, base_currency, currency, date)
      inverse == MemoryExchangeRates_get_exchange_rate(d, currency, base_currency, date)
  IN  IF Truthy(rate)
      THEN Outcome(DecimalFromStr(PyStr(rate)), <<q1>>)
      ELSE IF Truthy(inverse)
           THEN LET den == DecimalFromStr(inverse.s)
                IN  Outcome(IF den.t = "raise" THEN den
                            ELSE DecimalDivide(DecimalOne, den), <<q1, q2>>)
           ELSE IF Truthy(indirection_currency)
                THEN Outcome(Exc("AttributeError"), <<q1, q2>>)
                ELSE Outcome(rate, <<q1, q2>>)

\* ------------------------------------------------------------- objects

USD == Currency("USD")
EUR == Currency("EUR")
GBP == Currency("GBP")

Today == Date(1)

\* The largest number of entries the store holds in the model.
MaxEntries == 2

\* The orders in which Init names the hashes of the currencies and of the dates.
CurrencyOrder == <<USD, EUR, GBP>>
DateOrder == <<PyNone, Today>>

Max(S) == CHOOSE m \in S : \A n \in S : n <= m

\* Hashes are only compared for equality, and only position by position in a key,
\* so one function per pattern of collisions is enough: the first object hashes
\* to 1 and each later one to a hash already used or to the next unused one.
Canonical(f, order) ==
  \A i \in 1..Len(order) :
    f[order[i]] <= IF i = 1 THEN 1 ELSE Max({f[order[j]] : j \in 1..(i - 1)}) + 1

Range(s) == {s[i] : i \in 1..Len(s)}

\* The hash functions on n currencies and the dates, collisions included.
HashFns(n) ==
  LET cs == SubSeq(CurrencyOrder, 1, n)
  IN  {f \in [Range(cs) \cup Range(DateOrder) -> 1..n] :
         Canonical(f, cs) /\ Canonical(f, DateOrder)}

NoCall ==
  [op |-> "none", base |-> PyNone, target |-> PyNone, ind |-> PyNone, date |-> PyNone,
   rate |-> PyNone, res |-> PyNone, pre |-> <<>>]

Call(op, base, target, ind, date, rate, res) ==
  [op |-> op, base |-> base, target |-> target, ind |-> ind, date |-> date,
   rate |-> rate, res |-> res, pre |-> rates]

\* ------------------------------------------------------------- actions

\* er.add_exchange_rate(base, target, rate, date) on the resolver.
AddExchangeRate(base, target, rate, date) ==
  /\ rates' = ExchangeRates_add_exchange_rate(rates, base, target, rate, date)
  /\ Cardinality(DOMAIN rates') <= MaxEntries
  /\ last' = Call("add", base, target, PyNone, date, rate, Outcome(PyNone, <<>>))
  /\ UNCHANGED hashfn

\* er.remove_exchange_rate(base, target, date) on the resolver.
RemoveExchangeRate(base, target, date) ==
  /\ rates' = ExchangeRates_remove_exchange_rate(rates, base, target, date)
  /\ last' = Call("remove", base, target, PyNone, date, PyNone, Outcome(PyNone, <<>>))
  /\ UNCHANGED hashfn

\* er.get_exchange_rate(base, target, indirection_currency, date) on the resolver.
GetExchangeRate(base, target, ind, date) ==
  /\ last' = Call("get", base, target, ind, date, PyNone,
                  ExchangeRates_get_exchange_rate(rates, base, target, ind, date))
  /\ UNCHANGED <<hashfn, rates>>

\* ExchangeRate(base, target, rate, date).
NewExchangeRate(base, target, rate, date) ==
  /\ last' = Call("new", base, target, PyNone, date, rate,
                  Outcome(ExchangeRate_new(base, target, rate, date), <<>>))
  /\ UNCHANGED <<hashfn, rates>>

\* st.add_exchange_rate(base, target, value, date) on the store itself.
StoreAdd(base, target, value, date) ==
  /\ rates' = MemoryExchangeRates_add_exchange_rate(rates, base, target, value, date)
  /\ Cardinality(DOMAIN rates') <= MaxEntries
  /\ last' = Call("store.add", base, target, PyNone, date, value, Outcome(PyNone, <<>>))
  /\ UNCHANGED hashfn

\* st.remove_exchange_rate(base, target, date) on the store itself.
StoreRemove(base, target, date) ==
  /\ rates' = MemoryExchangeRates_remove_exchange_rate(rates, base, target, date)
  /\ last' = Call("store.remove", base, target, PyNone, date, PyNone, Outcome(PyNone, <<>>))
  /\ UNCHANGED hashfn

\* st.get_exchange_rate(base, target, date) on the store itself.
StoreGet(base, target, date) ==
  /\ last' = Call("store.get", base, target, PyNone, date, PyNone,
                  Outcome(MemoryExchangeRates_get_exchange_rate(rates, base, target, date), <<>>))
  /\ UNCHANGED <<hashfn, rates>>

\* ------------------------------------------------------ specifications

Half == <<"0", ".", "5">>

\* The rates handed to the resolver and to ExchangeRate: ints, strs, a float and a
\* Decimal; zero, an inexact reciprocal, an exact one, and two strs that are no
\* decimal (the empty one is false as a condition).
RateInputs ==
  {IntVal(0), IntVal(3), StrVal(Half), FloatVal(Half), Dec(0, <<5>>, -1), StrVal(<<"a", "b", "c">>), StrVal(<<>>)}

Dates == {PyNone, Today}

Pairs(cs) == {p \in cs \X cs : p[1] # p[2]}

\* The resolver over two currencies.
Init ==
  /\ hashfn \in HashFns(2)
  /\ rates = <<>>
  /\ last = NoCall

Add ==
  \E p \in Pairs({USD, EUR}), date \in Dates, rate \in RateInputs :
    AddExchangeRate(p[1], p[2], rate, date)

Remove ==
  \E p \in Pairs({USD, EUR}), date \in Dates :
    RemoveExchangeRate(p[1], p[2], date)

Get ==
  \E p \in Pairs({USD, EUR}), date \in Dates, ind \in {PyNone, USD, EUR} :
    GetExchangeRate(p[1], p[2], ind, date)

New ==
  \E date \in Dates, rate \in RateInputs :
    NewExchangeRate(USD, EUR, rate, date)

Next == Add \/ Remove \/ Get \/ New

Spec == Init /\ [][Next]_vars

\* The store on its own, over two currencies, a currency against itself included.
StoreValues == {StrVal(<<"1", ".", "0">>), StrVal(<<"2">>)}

InitStore ==
  /\ hashfn \in HashFns(2)
  /\ rates = <<>>
  /\ last = NoCall

StAdd ==
  \E base \in {USD, EUR}, target \in {USD, EUR}, date \in Dates, value \in StoreValues :
    StoreAdd(base, target, value, date)

StRemove ==
  \E base \in {USD, EUR}, target \in {USD, EUR}, date \in Dates :
    StoreRemove(base, target, date)

StGet ==
  \E base \in {USD, EUR}, target \in {USD, EUR}, date \in Dates :
    StoreGet(base, target, date)

NextStore == StAdd \/ StRemove \/ StGet

SpecStore == InitStore /\ [][NextStore]_vars

\* The resolver over three currencies, well-formed rates and the default date: the
\* queries that name an indirection currency.
LegRates == {FloatVal(<<"0", ".", "9">>), FloatVal(<<"0", ".", "8", "5">>)}

InitIndirection ==
  /\ hashfn \in HashFns(3)
  /\ rates = <<>>
  /\ last = NoCall

IndAdd ==
  \E p \in Pairs({USD, EUR, GBP}), date \in {PyNone}, rate \in LegRates :
    AddExchangeRate(p[1], p[2], rate, date)

IndRemove ==
  \E p \in Pairs({USD, EUR, GBP}), date \in {PyNone} :
    RemoveExchangeRate(p[1], p[2], date)

IndGet ==
  \E p \in Pairs({USD, EUR, GBP}), date \in {PyNone}, ind \in {PyNone, USD, EUR, GBP} :
    GetExchangeRate(p[1], p[2], ind, date)

NextIndirection == IndAdd \/ IndRemove \/ IndGet

SpecIndirection == InitIndirection /\ [][NextIndirection]_vars

\* ------------------------------------------------------------- claims

\* The keys (base, target, date) over the objects of the run.
Keys ==
  LET cs == {x \in DOMAIN hashfn : x.t = "Currency"}
      ds == {x \in DOMAIN hashfn : x.t # "Currency"}
  IN  cs \X cs \X ds

\* What the store's get_exchange_rate answers for a key in the dict d.
Lookup(d, k) == MemoryExchangeRates_get_exchange_rate(d, k[1], k[2], k[3])

\* The run's hash function sends distinct keys to distinct slots.
NoCollision ==
  \A k1 \in Keys, k2 \in Keys :
    k1 # k2 => _get_key(k1[1], k1[2], k1[3]) # _get_key(k2[1], k2[2], k2[3])

LastKey == <<last.base, last.target, last.date>>
LastSwapped == <<last.target, last.base, last.date>>

\* The rate can be read as a decimal number.
Parseable(rate) == DecimalFromStr(PyStr(rate)).t = "Decimal"

\* The number a rate argument stands for, as a Decimal.
RateValue(rate) ==
  CASE rate.t = "int"     -> Dec(IF rate.n < 0 THEN 1 ELSE 0,
                                 NatDigits(IF rate.n < 0 THEN -rate.n ELSE rate.n), 0)
    [] rate.t = "str"     -> DecimalFromStr(rate.s)
    [] rate.t = "float"   -> DecimalFromStr(rate.repr)
    [] rate.t = "Decimal" -> rate

\* A Decimal without the trailing zeros of its coefficient; zero is 0.
RECURSIVE Normalize(_)
Normalize(d) ==
  IF IsZero(d) THEN Dec(0, <<0>>, 0)
  ELSE IF d.int[Len(d.int)] = 0
       THEN Normalize(Dec(d.sign, SubSeq(d.int, 1, Len(d.int) - 1), d.exp + 1))
       ELSE d

\* a == b on Decimals: the same number, whatever the exponents.
DecimalEq(a, b) == Normalize(a) = Normalize(b)

\* a - b on digit sequences of the same length, a >= b.
RECURSIVE SubBorrow(_, _, _)
SubBorrow(a, b, borrow) ==
  IF a = <<>> THEN <<>>
  ELSE LET v == a[Len(a)] - b[Len(b)] - borrow
       IN  Append(SubBorrow(SubSeq(a, 1, Len(a) - 1), SubSeq(b, 1, Len(b) - 1),
                            IF v < 0 THEN 1 ELSE 0),
                  IF v < 0 THEN v + 10 ELSE v)

\* a >= b on digit sequences of the same length.
RECURSIVE GeqDigits(_, _)
GeqDigits(a, b) ==
  \/ a = <<>>
  \/ Head(a) > Head(b)
  \/ Head(a) = Head(b) /\ GeqDigits(Tail(a), Tail(b))

\* |a - b| on digit sequences, without leading zeros.
Distance(a, b) ==
  LET n  == IF Len(a) > Len(b) THEN Len(a) ELSE Len(b)
      pa == Zeros(n - Len(a)) \o a
      pb == Zeros(n - Len(b)) \o b
  IN  StripLeft(IF GeqDigits(pa, pb) THEN SubBorrow(pa, pb, 0) ELSE SubBorrow(pb, pa, 0))

\* q is 1/r to the context's precision: q * r = 1 exactly, or q has all the digits
\* of the precision and q * r is within half a unit of q's last place of 1.
IsReciprocal(q, r) ==
  LET n    == DigitsToNat(r.int)
      prod == StripLeft(MulCarry(q.int, n, 0))
      one  == <<1>> \o Zeros(-(q.exp + r.exp))
      dist == Distance(prod, one)
  IN  /\ q.sign = r.sign
      /\ q.exp + r.exp <= 0
      /\ Len(q.int) <= DecimalPrec
      /\ \/ dist = <<0>>
         \/ /\ Len(q.int) = DecimalPrec
            /\ Len(dist) <= Len(r.int)
            /\ 2 * DigitsToNat(dist) <= n

\* The leg (base, target, date) is resolvable: a direct or an inverse entry gives
\* the resolver a rate.
Resolvable(d, base, target, date) ==
  ExchangeRates_get_exchange_rate(d, base, target, PyNone, date).val.t = "Decimal"

LegRate(d, base, target, date) ==
  ExchangeRates_get_exchange_rate(d, base, target, PyNone, date).val

\* C1: when neither (base, target, date) nor (target, base, date) is stored and both
\* legs through the indirection currency are resolvable, get_exchange_rate with
\* that indirection currency returns the product of the two leg rates and does
\* not raise.
C1_IndirectionComposition ==
  ( /\ NoCollision
    /\ last.op = "get"
    /\ last.ind # PyNone
    /\ Lookup(last.pre, LastKey) = PyNone
    /\ Lookup(last.pre, LastSwapped) = PyNone
    /\ Resolvable(last.pre, last.base, last.ind, last.date)
    /\ Resolvable(last.pre, last.ind, last.target, last.date) )
  => /\ last.res.val.t = "Decimal"
     /\ DecimalEq(last.res.val,
                  DecimalMultiply(LegRate(last.pre, last.base, last.ind, last.date),
                                  LegRate(last.pre, last.ind, last.target, last.date)))

\* C2: when there is no direct entry, no inverse entry and no resolvable pair of
\* indirection legs, get_exchange_rate returns None, with or without an
\* indirection currency: it does not raise and returns no other value.
C2_AbsencePropagation ==
  ( /\ NoCollision
    /\ last.op = "get"
    /\ Lookup(last.pre, LastKey) = PyNone
    /\ Lookup(last.pre, LastSwapped) = PyNone
    /\ ~ ( /\ last.ind # PyNone
           /\ Resolvable(last.pre, last.base, last.ind, last.date)
           /\ Resolvable(last.pre, last.ind, last.target, last.date) ) )
  => last.res.val = PyNone

\* C3: whenever a direct entry is stored for (base, target, date),
\* get_exchange_rate returns the direct value after a single store lookup, that
\* of the direct key, whether or not the inverse entry is stored too.
C3_DirectFirst ==
  ( /\ NoCollision
    /\ last.op = "get"
    /\ Lookup(last.pre, LastKey) # PyNone )
  => /\ last.res.val.t = "Decimal"
     /\ last.res.val = DecimalFromStr(Lookup(last.pre, LastKey).s)
     /\ last.res.queries = <<LastKey>>

\* C4 as stated: remove on a key that is absent does not raise and leaves get
\* unchanged on every key, the swapped key included.
C4_RemoveAbsentUnchanged ==
  ( /\ NoCollision
    /\ last.op = "store.remove"
    /\ Lookup(last.pre, LastKey) = PyNone )
  => /\ last.res.val = PyNone
     /\ \A k \in Keys : Lookup(rates, k) = Lookup(last.pre, k)

\* C4 as amended: remove on a key that is absent does not raise; it deletes the
\* entry of the swapped key (target, base, date) when there is one, and leaves
\* get unchanged on every key that does not share that entry's slot; with both
\* keys absent the store is unchanged.
C4_RemoveAbsentDual ==
  ( /\ last.op = "store.remove"
    /\ Lookup(last.pre, LastKey) = PyNone )
  => /\ last.res.val = PyNone
     /\ \A k \in Keys :
          Lookup(rates, k) =
            IF _get_key(k[1], k[2], k[3]) = _get_key(last.target, last.base, last.date)
            THEN PyNone ELSE Lookup(last.pre, k)
     /\ Lookup(last.pre, LastSwapped) = PyNone => rates = last.pre

\* A removal of an absent key whose swapped key was stored, beside another entry
\* that stays.
C4_Witness ==
  /\ NoCollision
  /\ last.op = "store.remove"
  /\ Lookup(last.pre, LastKey) = PyNone
  /\ Lookup(last.pre, LastSwapped) # PyNone
  /\ rates # <<>>

\* C5: after the store's remove_exchange_rate(base, target, date) both
\* (base, target, date) and (target, base, date) are absent, and the entries of
\* every other currency pair and of every other date are as they were.
C5_DualRemoval ==
  last.op = "store.remove"
  => /\ Lookup(rates, LastKey) = PyNone
     /\ Lookup(rates, LastSwapped) = PyNone
     /\ \A k \in Keys \ {LastKey, LastSwapped} : Lookup(rates, k) = Lookup(last.pre, k)

\* C6: add_exchange_rate, and the ExchangeRate constructor, given a rate that is no
\* decimal number fail at that call, and the store is left as it was.
C6_MalformedRejected ==
  ( /\ NoCollision
    /\ last.op \in {"add", "new"}
    /\ ~Parseable(last.rate) )
  => /\ last.res.val.t = "raise"
     /\ rates = last.pre

\* C7: right after add_exchange_rate(base, target, rate, date) with a rate that is a
\* decimal number, get_exchange_rate(base, target, date=date) returns a Decimal
\* equal to the rate, whatever was stored at that key or at the swapped key.
C7_RoundTrip ==
  ( /\ last.op = "add"
    /\ Parseable(last.rate) )
  => LET got == ExchangeRates_get_exchange_rate(rates, last.base, last.target,
                                                PyNone, last.date)
     IN  /\ got.val.t = "Decimal"
         /\ DecimalEq(got.val, RateValue(last.rate))

\* An add that replaced another value at its key while the swapped key held an
\* entry.
C7_Witness ==
  /\ NoCollision
  /\ last.op = "add"
  /\ Parseable(last.rate)
  /\ last.rate.t = "int"
  /\ Lookup(last.pre, LastKey) \notin {PyNone, Lookup(rates, LastKey)}
  /\ Lookup(rates, LastSwapped) \notin {PyNone, Lookup(rates, LastKey)}

\* C8: with (target, base, date) -> r stored for a non-zero r and (base, target,
\* date) not stored, get_exchange_rate(base, target, date=date) returns the
\* reciprocal of r to the precision of decimal arithmetic, and not None.
C8_InversionExact ==
  ( /\ last.op = "get"
    /\ last.ind = PyNone
    /\ Lookup(last.pre, LastKey) = PyNone
    /\ Lookup(last.pre, LastSwapped) # PyNone
    /\ Parseable(Lookup(last.pre, LastSwapped))
    /\ ~IsZero(RateValue(Lookup(last.pre, LastSwapped))) )
  => /\ last.res.val.t = "Decimal"
     /\ IsReciprocal(last.res.val, RateValue(Lookup(last.pre, LastSwapped)))

\* A query answered from the inverse entry 3, whose reciprocal is not exact.
C8_Witness ==
  /\ NoCollision
  /\ last.op = "get"
  /\ last.ind = PyNone
  /\ Lookup(last.pre, LastKey) = PyNone
  /\ Lookup(last.pre, LastSwapped) = StrVal(<<"3">>)
  /\ last.res.val.t = "Decimal"
  /\ Len(last.res.val.int) = DecimalPrec

\* C9: the store's add makes get return the rate at (base, target, date) and leaves
\* get unchanged on every other key: distinct keys never share a slot.
C9_AddTouchesOneKey ==
  last.op = "store.add"
  => /\ Lookup(rates, LastKey) = last.rate
     /\ \A k \in Keys \ {LastKey} : Lookup(rates, k) = Lookup(last.pre, k)

\* C10: in a store that holds only rates that are decimal numbers, zero included,
\* get_exchange_rate without an indirection currency returns a Decimal or None,
\* and a Decimal whenever the inverse entry is found.
C10_NoFailure ==
  ( /\ NoCollision
    /\ last.op = "get"
    /\ last.ind = PyNone
    /\ \A s \in DOMAIN last.pre : Parseable(last.pre[s]) )
  => /\ last.res.val.t \in {"Decimal", "None"}
     /\ Lookup(last.pre, LastSwapped) # PyNone => last.res.val.t = "Decimal"

====
